---------------------------- MODULE Spec2Model ----------------------------
(***************************************************************************)
(* A model of gridpack_integration/read_scenario.py: the three operations  *)
(* print_structure, read_element and read_scenario, and main's dispatch,   *)
(* run against an HDF5 container.                                          *)
(*                                                                         *)
(* The container is a tree of objects.  A group holds attributes and named *)
(* links to its children, a dataset holds its array.  A path is the        *)
(* sequence of the names between its slashes ("grid/nodes/load" is         *)
(* <<"grid", "nodes", "load">>).  Numbers are fixed point: load tables in  *)
(* whole MW, generator tables in thousandths, so that the redispatch       *)
(* threshold 0.01 is the integer 10.                                       *)
(***************************************************************************)
EXTENDS Integers, Sequences, FiniteSets, TLC

\* ------------------------------------------------------------------ bounds
\* Most contingencies a scenario file declares.
MaxCont == 2
\* Most rows of a load table.
MaxLoad == 2
\* Most rows of a generator table.
MaxGen == 2
\* Most objects, the root aside, of a free-form container.
MaxNodes == 3

\* np.abs(dpg) > 0.01, in thousandths.
Threshold == 10

\* ------------------------------------------------------------ the container
\* A dataset of `cols` columns (0: one-dimensional); obj.shape is Shape(obj).
Dataset(d, cols) ==
    [kind |-> "dataset", attrs |-> <<>>, links |-> <<>>, data |-> d, cols |-> cols]
Group(a, l) ==
    [kind |-> "group", attrs |-> a, links |-> l, data |-> <<>>, cols |-> 0]
\* What a failed lookup yields (h5py raises KeyError, `in` answers False).
NoObj ==
    [kind |-> "none", attrs |-> <<>>, links |-> <<>>, data |-> <<>>, cols |-> 0]
Shape(obj) == IF obj.cols = 0 THEN <<Len(obj.data)>> ELSE <<Len(obj.data), obj.cols>>

\* f"contingency_{i+1:06d}": the decimal digits, zero-padded to six.
ZeroPad6(n) ==
    IF n < 10 THEN "00000" \o ToString(n)
    ELSE IF n < 100 THEN "0000" \o ToString(n)
    ELSE IF n < 1000 THEN "000" \o ToString(n)
    ELSE IF n < 10000 THEN "00" \o ToString(n)
    ELSE IF n < 100000 THEN "0" \o ToString(n)
    ELSE ToString(n)
ContName(n) == "contingency_" \o ZeroPad6(n)
ContPath(n) == <<"post_contingency", ContName(n)>>

\* HDF5 iterates links in increasing order of name; the names of the model.
NameOrder ==
    <<"a", "b", "base_solution", "bus", "contingencies">>
    \o [n \in 1..(MaxCont + 1) |-> ContName(n)]
    \o <<"generator", "grid", "ids", "load", "names", "nodes", "opf",
         "post_contingency", "types">>
AttrOrder == <<"count", "objective", "opf_converged", "pf_converged">>

\* f[path]: follow the links from `obj`, one name at a time.
RECURSIVE Lookup(_, _)
Lookup(obj, path) ==
    IF path = <<>> THEN obj
    ELSE IF obj.kind = "group" /\ Head(path) \in DOMAIN obj.links
    THEN Lookup(obj.links[Head(path)], Tail(path))
    ELSE NoObj

\* path in f
Contains(f, path) == Lookup(f, path).kind # "none"

\* obj.attrs[key] exists
HasAttr(f, path, key) == key \in DOMAIN Lookup(f, path).attrs

\* A walk that names the objects below a group relative to that group.
RECURSIVE VisitChildrenRelative(_, _, _)
VisitChildrenRelative(g, prefix, k) ==
    IF k > Len(NameOrder) THEN <<>>
    ELSE LET n == NameOrder[k]
             rest == VisitChildrenRelative(g, prefix, k + 1)
         IN  IF n \notin DOMAIN g.links THEN rest
             ELSE LET child == g.links[n]
                      here == <<[path |-> Append(prefix, n), obj |-> child]>>
                      below == IF child.kind = "group"
                               THEN VisitChildrenRelative(child, <<>>, 1)
                               ELSE <<>>
                  IN  here \o below \o rest

\* f.visititems: every object below the root once, a group before its
\* children, the children in the order of their names.
RECURSIVE VisitChildren(_, _, _)
VisitChildren(g, prefix, k) ==
    IF k > Len(NameOrder) THEN <<>>
    ELSE LET n == NameOrder[k]
             rest == VisitChildren(g, prefix, k + 1)
         IN  IF n \notin DOMAIN g.links THEN rest
             ELSE LET child == g.links[n]
                      here == <<[path |-> Append(prefix, n), obj |-> child]>>
                      below == IF child.kind = "group"
                               THEN VisitChildren(child, Append(prefix, n), 1)
                               ELSE <<>>
                  IN  here \o below \o rest
VisitItems(f) == VisitChildren(f, <<>>, 1)

Range(s) == {s[k] : k \in DOMAIN s}
WalkPaths(f) == LET items == VisitItems(f) IN {items[k].path : k \in DOMAIN items}

\* ------------------------------------------------- building scenario files
\* The file without the link at `path` (and all below it).
RECURSIVE RemoveLink(_, _)
RemoveLink(obj, path) ==
    IF path = <<>> \/ obj.kind # "group" \/ Head(path) \notin DOMAIN obj.links
    THEN obj
    ELSE IF Len(path) = 1
    THEN [obj EXCEPT !.links =
            [n \in DOMAIN obj.links \ {Head(path)} |-> obj.links[n]]]
    ELSE [obj EXCEPT !.links[Head(path)] =
            RemoveLink(obj.links[Head(path)], Tail(path))]

\* The file without attribute `key` of the object at `path`.
RECURSIVE RemoveAttr(_, _, _)
RemoveAttr(obj, path, key) ==
    IF path = <<>>
    THEN [obj EXCEPT !.attrs = [a \in DOMAIN obj.attrs \ {key} |-> obj.attrs[a]]]
    ELSE IF obj.kind # "group" \/ Head(path) \notin DOMAIN obj.links
    THEN obj
    ELSE [obj EXCEPT !.links[Head(path)] =
            RemoveAttr(obj.links[Head(path)], Tail(path), key)]

Nodes3(bus, gen, load) ==
    Group(<<>>, "nodes" :> Group(<<>>,
        ("bus" :> Dataset(bus, 2)) @@ ("generator" :> Dataset(gen, 1))
        @@ ("load" :> Dataset(load, 2))))

\* One result group: the two flags and, with `sub`, the solution sub-tree.
ContGroup(c) ==
    Group(("pf_converged" :> c.pf) @@ ("opf_converged" :> c.opf),
          IF c.sub
          THEN "opf" :> [Nodes3(c.bus, c.gen, c.load)
                           EXCEPT !.attrs = "objective" :> c.objective]
          ELSE <<>>)

\* The schema of a scenario file, filled from the record `p`.
Scenario(p) ==
    Group(<<>>,
        ("grid" :> Group(<<>>, "nodes" :> Group(<<>>, "load" :> Dataset(p.loadIn, 4))))
        @@ ("base_solution" :> Group(<<>>,
                "opf" :> Nodes3(p.baseBus, p.baseGen, p.baseLoad)))
        @@ ("contingencies" :> Group("count" :> p.count,
                ("types" :> Dataset(p.types, 0)) @@ ("names" :> Dataset(p.names, 0))
                @@ ("ids" :> Dataset(p.ids, 0))))
        @@ ("post_contingency" :> Group(<<>>,
                [n \in {ContName(k) : k \in 1..Len(p.conts)} |->
                    ContGroup(p.conts[CHOOSE k \in 1..Len(p.conts) : ContName(k) = n])])))


\* ------------------------------------------------------ the files explored
\* Stored text arrives as bytes or as str; line 98 decodes the bytes.
Decode(e) == e.text

DefLoadIn == <<<<2, 1, 1, 1>>, <<3, 2, 1, 1>>>>
DefBaseLoad == <<<<2, 1>>, <<2, 2>>>>
DefBus == <<<<1, 100>>, <<2, 98>>>>
DefGen == <<<<500>>, <<300>>>>
DefTypes(n) == [k \in 1..n |-> k % 2]
DefNames(n) == [k \in 1..n |-> [enc |-> "bytes", text |-> "outage" \o ToString(k)]]
DefIds(n) == [k \in 1..n |-> [enc |-> "str", text |-> "id" \o ToString(k)]]
DefCont(k) ==
    [pf |-> 1, opf |-> 1, sub |-> TRUE, bus |-> DefBus, gen |-> DefGen,
     load |-> DefBaseLoad, objective |-> 100 * k]
DefParams(n) ==
    [loadIn |-> DefLoadIn, baseBus |-> DefBus, baseGen |-> DefGen,
     baseLoad |-> DefBaseLoad, count |-> n, types |-> DefTypes(n),
     names |-> DefNames(n), ids |-> DefIds(n),
     conts |-> [k \in 1..n |-> DefCont(k)]]
DefaultFile == Scenario(DefParams(MaxCont))

\* The schema's flag values.
FlagVals == {0, 1}
\* A result group's flags; a converged OPF has its solution sub-tree, a
\* failed one may or may not have left one behind.
FlagCombos ==
    {c \in [pf : FlagVals, opf : FlagVals, sub : BOOLEAN] : c.opf = 1 => c.sub}
WithFlags(n, fl) ==
    Scenario([DefParams(n) EXCEPT !.conts =
        [k \in 1..n |-> [DefCont(k) EXCEPT !.pf = fl[k].pf, !.opf = fl[k].opf,
                                           !.sub = fl[k].sub]]])
\* Flags that obey the schema: the sub-tree is there iff the OPF converged.
SchemaCombos == {c \in FlagCombos : c.sub = (c.opf = 1)}

\* Load tables: demand, base served and each of two contingencies' served.
InRows == {<<2, 1, 1, 1>>, <<3, 2, 1, 1>>}
ServedRows == {<<2, 1>>, <<1, 1>>}
ContRows == {<<2, 1>>, <<1, 0>>}
WithLoads(in, base, c1, c2) ==
    Scenario([DefParams(2) EXCEPT
        !.loadIn = in, !.baseLoad = base,
        !.conts = <<[DefCont(1) EXCEPT !.load = c1], [DefCont(2) EXCEPT !.load = c2]>>])

\* Generator tables of the base case and of contingency 1, in thousandths.
GenVals == {0, Threshold, Threshold + 1, 2 * Threshold + 1}
GenRows == {<<v>> : v \in GenVals}
WithGens(bg, cg) ==
    Scenario([DefParams(1) EXCEPT
        !.baseGen = bg, !.conts = <<[DefCont(1) EXCEPT !.gen = cg]>>])

\* The parallel arrays of lengths lt, ln, li beside a declared count of n.
WithLengths(n, lt, ln, li) ==
    Scenario([DefParams(n) EXCEPT !.types = DefTypes(lt), !.names = DefNames(ln),
                                  !.ids = DefIds(li)])

\* Free-form containers over the names a and b: Objs(n) are the objects of
\* exactly n nodes, GroupsOf(m) the groups with m nodes below them.
RECURSIVE Objs(_), GroupsOf(_)
LinksOf(ca, cb) ==
    [n \in (IF ca.kind = "none" THEN {} ELSE {"a"})
           \cup (IF cb.kind = "none" THEN {} ELSE {"b"})
       |-> IF n = "a" THEN ca ELSE cb]
Objs(n) ==
    IF n = 0 THEN {NoObj}
    ELSE (IF n = 1 THEN {Dataset(<<<<1, 2>>>>, 2)} ELSE {}) \cup GroupsOf(n - 1)
GroupsOf(m) ==
    UNION {{Group("count" :> m, LinksOf(ca, cb)) : ca \in Objs(na), cb \in Objs(m - na)}
           : na \in 0..m}

\* The command lines.  element is the --element string's path (the empty
\* string is <<>>); hasElement is FALSE when the flag is not given.
RECURSIVE PathsTo(_)
PathsTo(n) ==
    IF n = 0 THEN {<<>>}
    ELSE PathsTo(n - 1)
         \cup {Append(p, x) : p \in {q \in PathsTo(n - 1) : Len(q) = n - 1},
                              x \in {"a", "b"}}
NoArgs == [structure |-> FALSE, hasElement |-> FALSE, element |-> <<>>]
ArgsOver(paths) ==
    {NoArgs, [NoArgs EXCEPT !.structure = TRUE]}
    \cup {[structure |-> FALSE, hasElement |-> TRUE, element |-> p] : p \in paths}
    \cup {[structure |-> TRUE, hasElement |-> TRUE, element |-> p]
            : p \in {q \in paths : Len(q) <= 1}}
SchemaProbes ==
    WalkPaths(DefaultFile)
    \cup {<<>>, <<"grid", "nodes", "bus">>, <<"grid", "nodes", "load", "a">>,
          ContPath(MaxCont + 1)}

\* ---------------------------------------------------------------- the state
VARIABLES
    file,        \* the container at filepath
    exists,      \* whether filepath can be opened
    args,        \* the parsed command line
    pc,          \* where the program is
    calls,       \* the operations main has called
    handle,      \* the h5py.File: "none", "open" or "closed"
    opens,       \* how often the file was opened
    out,         \* the lines printed so far
    reads,       \* the accesses made through the handle, in order
    err,         \* the exception the program ended with
    load_input, n_cont, cont_types, cont_names, cont_ids, i

vars == <<file, exists, args, pc, calls, handle, opens, out, reads, err,
          load_input, n_cont, cont_types, cont_names, cont_ids, i>>
input == <<file, exists, args>>
locals == <<load_input, n_cont, cont_types, cont_names, cont_ids, i>>

NoErr == [kind |-> "none", path |-> <<>>, attr |-> ""]

\* The summary of a scenario file: every count and every flag combination
\* (a failed OPF with or without a sub-tree left behind).
FlagInput ==
    \E n \in 0..MaxCont : \E fl \in [1..n -> FlagCombos] :
        file = WithFlags(n, fl) /\ exists = TRUE /\ args = NoArgs

\* ... of a schema file with one object (and all below it) or one attribute
\* removed.
MissingInput ==
    \E n \in 0..MaxCont : \E fl \in [1..n -> SchemaCombos] :
        LET F == WithFlags(n, fl)
            items == VisitItems(F)
        IN  \E k \in DOMAIN items :
                /\ \/ file = RemoveLink(F, items[k].path)
                   \/ \E a \in DOMAIN items[k].obj.attrs :
                        file = RemoveAttr(F, items[k].path, a)
                /\ exists = TRUE /\ args = NoArgs

\* ... of a file whose parallel arrays are shorter or longer than the count.
LengthInput ==
    \E n \in 0..MaxCont : \E lt, ln, li \in 0..(MaxCont + 1) :
        file = WithLengths(n, lt, ln, li) /\ exists = TRUE /\ args = NoArgs

\* ... of files with every choice of load tables.
ShedInput ==
    \E n \in 1..MaxLoad :
        \E in \in [1..n -> InRows], base \in [1..n -> ServedRows],
           c1 \in [1..n -> ContRows], c2 \in [1..n -> ContRows] :
            file = WithLoads(in, base, c1, c2) /\ exists = TRUE /\ args = NoArgs

\* ... of files with every choice of generator tables.
GenInput ==
    \E n \in 0..MaxGen : \E bg \in [1..n -> GenRows], cg \in [1..n -> GenRows] :
        file = WithGens(bg, cg) /\ exists = TRUE /\ args = NoArgs

\* Every command line against every free-form container.
TreeInput ==
    \E m \in 0..MaxNodes : \E t \in GroupsOf(m) :
        \E a \in ArgsOver(PathsTo(MaxNodes + 1)) :
            file = t /\ exists = TRUE /\ args = a

\* Every command line against a scenario file, and against a missing file.
DefaultInput ==
    \E a \in ArgsOver(SchemaProbes) : \E x \in BOOLEAN :
        file = DefaultFile /\ exists = x /\ args = a

Init ==
    /\ \/ FlagInput
       \/ MissingInput
       \/ LengthInput
       \/ ShedInput
       \/ GenInput
       \/ TreeInput
       \/ DefaultInput
    /\ pc = "main" /\ calls = <<>> /\ handle = "none" /\ opens = 0
    /\ out = <<>> /\ reads = <<>> /\ err = NoErr
    /\ load_input = <<>> /\ n_cont = 0 /\ cont_types = <<>>
    /\ cont_names = <<>> /\ cont_ids = <<>> /\ i = 0

\* ------------------------------------------------------------------- main
\* bool(args.element): None and the empty string are false.
Truthy(a) == a.hasElement /\ a.element # <<>>

\* A dispatch that tests --element before --structure.
DispatchElementFirst(a) ==
    IF Truthy(a) THEN "read_element"
    ELSE IF a.structure THEN "print_structure"
    ELSE "read_scenario"

Dispatch(a) ==
    IF a.structure THEN "print_structure"
    ELSE IF Truthy(a) THEN "read_element"
    ELSE "read_scenario"

Entry(op) ==
    CASE op = "print_structure" -> "ps_header"
      [] op = "read_element" -> "re_open"
      [] op = "read_scenario" -> "rs_header"

main ==
    /\ pc = "main"
    /\ calls' = Append(calls, Dispatch(args))
    /\ pc' = Entry(Dispatch(args))
    /\ UNCHANGED <<input, handle, opens, out, reads, err, locals>>

\* ------------------------------------------------------ the handle, reads
\* A handle that is never closed (no with block).
WithExitLeak(h) == h

\* Leaving the with block, by its end, by return or by an exception.
WithExit(h) == "closed"

\* with h5py.File(filepath, "r") as f
Open(next) ==
    \/ /\ exists
       /\ handle' = "open" /\ opens' = opens + 1 /\ pc' = next
       /\ UNCHANGED <<input, calls, out, reads, err, locals>>
    \/ /\ ~exists
       /\ pc' = "failed"
       /\ err' = [kind |-> "OSError", path |-> <<>>, attr |-> ""]
       /\ UNCHANGED <<input, calls, handle, opens, out, reads, locals>>

Get(path) == [op |-> "get", path |-> path, attr |-> ""]
Attr(path, key) == [op |-> "attr", path |-> path, attr |-> key]
Visit == [op |-> "visititems", path |-> <<>>, attr |-> ""]
In(path) == [op |-> "contains", path |-> path, attr |-> ""]

\* Each access is logged with the state of the handle it went through.
Stamp(rs) ==
    [k \in 1..Len(rs) |->
        [op |-> rs[k].op, path |-> rs[k].path, attr |-> rs[k].attr, h |-> handle]]

\* Whether f[path], or f[path].attrs[key], finds its object.
ReadOk(f, r) ==
    IF r.op = "attr" THEN Contains(f, r.path) /\ HasAttr(f, r.path, r.attr)
    ELSE Contains(f, r.path)

\* The first of the reads `rs` that raises, 0 when none does.
FirstFail(f, rs) ==
    IF \A k \in DOMAIN rs : ReadOk(f, rs[k]) THEN 0
    ELSE CHOOSE k \in DOMAIN rs :
            ~ReadOk(f, rs[k]) /\ \A j \in 1..(k - 1) : ReadOk(f, rs[j])

\* An exception that does not say what was missing.
RaiseUnnamed(kind, r, done, lines) ==
    /\ pc' = "failed"
    /\ err' = [kind |-> kind, path |-> <<>>, attr |-> ""]
    /\ handle' = WithExit(handle)
    /\ reads' = reads \o Stamp(done)
    /\ out' = out \o lines
    /\ UNCHANGED <<input, calls, opens, locals>>

\* An exception leaves the with block: `done` were read, `lines` printed.
Raise(kind, r, done, lines) ==
    /\ pc' = "failed"
    /\ err' = [kind |-> kind, path |-> r.path, attr |-> r.attr]
    /\ handle' = WithExit(handle)
    /\ reads' = reads \o Stamp(done)
    /\ out' = out \o lines
    /\ UNCHANGED <<input, calls, opens, locals>>

Ln(kind) == [kind |-> kind]

\* -------------------------------------------------------- print_structure
\* The attributes of an object as lines, in the order of their names.
AttrLines(obj, kind, indent) ==
    LET keys == SelectSeq(AttrOrder, LAMBDA a : a \in DOMAIN obj.attrs)
    IN  [k \in 1..Len(keys) |->
            [kind |-> kind, key |-> keys[k], val |-> obj.attrs[keys[k]],
             indent |-> indent]]

\* visitor(name, obj): one line, and for a group a line per attribute;
\* name.count("/") indents.
visitor(e) ==
    LET indent == Len(e.path) - 1
    IN  IF e.obj.kind = "dataset"
        THEN <<[kind |-> "dataset", path |-> e.path, indent |-> indent,
                shape |-> Shape(e.obj)]>>
        ELSE <<[kind |-> "group", path |-> e.path, indent |-> indent]>>
             \o AttrLines(e.obj, "attr", indent + 1)

RECURSIVE Flatten(_)
Flatten(ss) == IF ss = <<>> THEN <<>> ELSE Head(ss) \o Flatten(Tail(ss))

\* f.visititems(visitor)
StructureLines(f) ==
    LET items == VisitItems(f)
    IN  Flatten([k \in 1..Len(items) |-> visitor(items[k])])

print_structure_header ==
    /\ pc = "ps_header"
    /\ out' = out \o <<Ln("rule"), Ln("structure_title"), Ln("rule")>>
    /\ pc' = "ps_open"
    /\ UNCHANGED <<input, calls, handle, opens, reads, err, locals>>

print_structure_open == pc = "ps_open" /\ Open("ps_visit")

print_structure_visit ==
    /\ pc = "ps_visit"
    /\ reads' = reads \o Stamp(<<Visit>>)
    /\ out' = out \o StructureLines(file)
    /\ handle' = WithExit(handle)
    /\ pc' = "done"
    /\ UNCHANGED <<input, calls, opens, err, locals>>

\* ----------------------------------------------------------- read_element
\* f.visititems(lambda name, obj: print(f"  {name}"))
ListPaths(f) ==
    LET items == VisitItems(f)
    IN  [k \in 1..Len(items) |-> [kind |-> "path", path |-> items[k].path]]

read_element_open == pc = "re_open" /\ Open("re_check")

read_element_not_found ==
    /\ pc = "re_check"
    /\ ~Contains(file, args.element)
    /\ reads' = reads \o Stamp(<<In(args.element), Visit>>)
    /\ out' = out \o <<[kind |-> "not_found", path |-> args.element],
                       Ln("available")>> \o ListPaths(file)
    /\ handle' = WithExit(handle)
    /\ pc' = "done"
    /\ UNCHANGED <<input, calls, opens, err, locals>>

read_element_dataset ==
    /\ pc = "re_check"
    /\ Contains(file, args.element)
    /\ LET obj == Lookup(file, args.element)
       IN  /\ obj.kind = "dataset"
           /\ out' = out \o <<[kind |-> "elem_path", path |-> args.element],
                              Ln("type_dataset"),
                              [kind |-> "elem_shape", shape |-> Shape(obj)],
                              Ln("elem_dtype"),
                              [kind |-> "elem_data", data |-> obj.data]>>
    /\ reads' = reads \o Stamp(<<In(args.element), Get(args.element)>>)
    /\ handle' = WithExit(handle)
    /\ pc' = "done"
    /\ UNCHANGED <<input, calls, opens, err, locals>>

read_element_group ==
    /\ pc = "re_check"
    /\ Contains(file, args.element)
    /\ LET obj == Lookup(file, args.element)
           keys == SelectSeq(NameOrder, LAMBDA n : n \in DOMAIN obj.links)
       IN  /\ obj.kind = "group"
           /\ out' = out \o <<[kind |-> "elem_path", path |-> args.element],
                              Ln("type_group"), Ln("attributes")>>
                         \o AttrLines(obj, "elem_attr", 1)
                         \o <<Ln("children")>>
                         \o [k \in 1..Len(keys) |-> [kind |-> "child", key |-> keys[k]]]
    /\ reads' = reads \o Stamp(<<In(args.element), Get(args.element)>>)
    /\ handle' = WithExit(handle)
    /\ pc' = "done"
    /\ UNCHANGED <<input, calls, opens, err, locals>>

\* ---------------------------------------------------------- read_scenario
\* table[:, c], c counted from 0 as in the source.
Col(table, c) == [k \in 1..Len(table) |-> table[k][c + 1]]
RECURSIVE Sum(_)
Sum(s) == IF s = <<>> THEN 0 ELSE Head(s) + Sum(Tail(s))
Min(s) == CHOOSE x \in Range(s) : \A y \in Range(s) : x <= y
Max(s) == CHOOSE x \in Range(s) : \A y \in Range(s) : x >= y
Abs(x) == IF x < 0 THEN -x ELSE x

\* input[:, c].sum() - served[:, c].sum()
Shed(inputTable, served, c) == Sum(Col(inputTable, c)) - Sum(Col(served, c))

\* A printed number, and the '-' printed in its place.
Num(v) == [avail |-> TRUE, val |-> v]
Placeholder == [avail |-> FALSE, val |-> 0]

GridLoad == <<"grid", "nodes", "load">>
BaseNodes(name) == <<"base_solution", "opf", "nodes", name>>
OpfNodes(n, name) == ContPath(n) \o <<"opf", "nodes", name>>

read_scenario_header ==
    /\ pc = "rs_header"
    /\ out' = out \o <<Ln("rule"), Ln("reading_title"), Ln("rule")>>
    /\ pc' = "rs_open"
    /\ UNCHANGED <<input, calls, handle, opens, reads, err, locals>>

read_scenario_open == pc = "rs_open" /\ Open("rs_load")

\* Lines 75-79: the input loads.
read_scenario_load ==
    /\ pc = "rs_load"
    /\ LET rs == <<Get(GridLoad)>>
           bad == FirstFail(file, rs)
           table == Lookup(file, GridLoad).data
       IN  \/ /\ bad # 0
              /\ Raise("KeyError", rs[bad], SubSeq(rs, 1, bad), <<>>)
           \/ /\ bad = 0
              /\ load_input' = table
              /\ reads' = reads \o Stamp(rs)
              /\ out' = out \o
                    <<[kind |-> "input_loads", shape |-> Shape(Lookup(file, GridLoad))],
                      Ln("columns"),
                      [kind |-> "total_p", val |-> Sum(Col(table, 0))],
                      [kind |-> "total_q", val |-> Sum(Col(table, 1))]>>
              /\ pc' = "rs_base"
              /\ UNCHANGED <<input, calls, handle, opens, err, n_cont,
                             cont_types, cont_names, cont_ids, i>>

\* Lines 82-93: the base case and its load shed.
read_scenario_base ==
    /\ pc = "rs_base"
    /\ LET rs == <<Get(BaseNodes("bus")), Get(BaseNodes("generator")),
                   Get(BaseNodes("load"))>>
           bad == FirstFail(file, rs)
           base_vm == Col(Lookup(file, BaseNodes("bus")).data, 1)
           base_pg == Col(Lookup(file, BaseNodes("generator")).data, 0)
           base_load_served == Lookup(file, BaseNodes("load")).data
       IN  \/ /\ bad # 0
              /\ Raise("KeyError", rs[bad], SubSeq(rs, 1, bad), <<>>)
           \/ /\ bad = 0
              /\ reads' = reads \o Stamp(rs)
              /\ out' = out \o
                    <<Ln("base_title"),
                      [kind |-> "total_generation", val |-> Sum(base_pg)],
                      [kind |-> "voltage_range", lo |-> Min(base_vm), hi |-> Max(base_vm)],
                      [kind |-> "load_shed",
                       p |-> Shed(load_input, base_load_served, 0),
                       q |-> Shed(load_input, base_load_served, 1)]>>
              /\ pc' = "rs_contingencies"
              /\ UNCHANGED <<input, calls, handle, opens, err, locals>>

\* Lines 96-103: the count and the three parallel arrays.
read_scenario_contingencies ==
    /\ pc = "rs_contingencies"
    /\ LET rs == <<Attr(<<"contingencies">>, "count"),
                   Get(<<"contingencies", "types">>),
                   Get(<<"contingencies", "names">>),
                   Get(<<"contingencies", "ids">>)>>
           bad == FirstFail(file, rs)
           names == Lookup(file, <<"contingencies", "names">>).data
           ids == Lookup(file, <<"contingencies", "ids">>).data
       IN  \/ /\ bad # 0
              /\ Raise("KeyError", rs[bad], SubSeq(rs, 1, bad), <<>>)
           \/ /\ bad = 0
              /\ n_cont' = Lookup(file, <<"contingencies">>).attrs["count"]
              /\ cont_types' = Lookup(file, <<"contingencies", "types">>).data
              /\ cont_names' = [k \in 1..Len(names) |-> Decode(names[k])]
              /\ cont_ids' = [k \in 1..Len(ids) |-> Decode(ids[k])]
              /\ i' = 0
              /\ reads' = reads \o Stamp(rs)
              /\ out' = out \o
                    <<Ln("dashes"),
                      [kind |-> "contingency_count",
                       val |-> Lookup(file, <<"contingencies">>).attrs["count"]],
                      Ln("dashes")>>
              /\ pc' = "rs_catalog"
              /\ UNCHANGED <<input, calls, handle, opens, err, load_input>>

\* An index that runs one ahead of the loop.
OverrunOffByOne(k) ==
    IF k + 1 >= Len(cont_types) THEN "types"
    ELSE IF k + 1 >= Len(cont_names) THEN "names"
    ELSE IF k + 1 >= Len(cont_ids) THEN "ids"
    ELSE ""

\* The first of types, names, ids that index k (from 0) overruns, "" if none.
Overrun(k) ==
    IF k >= Len(cont_types) THEN "types"
    ELSE IF k >= Len(cont_names) THEN "names"
    ELSE IF k >= Len(cont_ids) THEN "ids"
    ELSE ""

\* Lines 104-106: one catalog row.
read_scenario_catalog_row ==
    /\ pc = "rs_catalog"
    /\ i < n_cont
    /\ \/ /\ Overrun(i) # ""
          /\ Raise("IndexError", Get(<<"contingencies", Overrun(i)>>), <<>>, <<>>)
       \/ /\ Overrun(i) = ""
          /\ out' = out \o
                <<[kind |-> "catalog", idx |-> i + 1, name |-> cont_names[i + 1],
                   type |-> IF cont_types[i + 1] = 0 THEN "LINE" ELSE "GEN",
                   id |-> cont_ids[i + 1]]>>
          /\ i' = i + 1
          /\ UNCHANGED <<input, pc, calls, handle, opens, reads, err, load_input,
                         n_cont, cont_types, cont_names, cont_ids>>

\* Lines 109-113: the head of the results table.
read_scenario_results_header ==
    /\ pc = "rs_catalog"
    /\ i >= n_cont
    /\ out' = out \o <<Ln("dashes"), Ln("results_title"), Ln("dashes"),
                       Ln("results_head"), Ln("results_rule")>>
    /\ i' = 0
    /\ pc' = "rs_results"
    /\ UNCHANGED <<input, calls, handle, opens, reads, err, load_input, n_cont,
                   cont_types, cont_names, cont_ids>>

\* The two flags taken for each other.
StatusOfSwapped(pf_converged, opf_converged) ==
    IF pf_converged
    THEN (IF opf_converged THEN "PF+OPF OK" ELSE "OPF OK")
    ELSE (IF opf_converged THEN "PF OK, OPF FAIL" ELSE "BOTH FAIL")

\* Lines 127 and 130: the status of a result row.
StatusOf(pf_converged, opf_converged) ==
    IF opf_converged
    THEN (IF pf_converged THEN "PF+OPF OK" ELSE "OPF OK")
    ELSE (IF pf_converged THEN "PF OK, OPF FAIL" ELSE "BOTH FAIL")

\* g.attrs[key] == 1 of result group n.
Flag(f, n, key) == Lookup(f, ContPath(n)).attrs[key] = 1

\* A loop that reads the solution whatever the flag says.
ResultReadsUnguarded(f, n) ==
    LET flags == <<Get(ContPath(n)), Attr(ContPath(n), "pf_converged"),
                   Attr(ContPath(n), "opf_converged")>>
    IN  IF FirstFail(f, flags) = 0
        THEN flags \o <<Get(OpfNodes(n, "load")),
                        Attr(ContPath(n) \o <<"opf">>, "objective")>>
        ELSE flags

\* Lines 116-123: what the loop reads for contingency n: the group and its
\* two flags, and the served loads and the objective if the OPF converged.
ResultReads(f, n) ==
    LET flags == <<Get(ContPath(n)), Attr(ContPath(n), "pf_converged"),
                   Attr(ContPath(n), "opf_converged")>>
    IN  IF FirstFail(f, flags) = 0 /\ Flag(f, n, "opf_converged")
        THEN flags \o <<Get(OpfNodes(n, "load")),
                        Attr(ContPath(n) \o <<"opf">>, "objective")>>
        ELSE flags

\* The base case's served loads in place of the contingency's.
ServedTableOfBase(f, n) == Lookup(f, BaseNodes("load")).data

\* Line 122: g["opf/nodes/load"][:] of result group n.
ServedTable(f, n) == Lookup(f, OpfNodes(n, "load")).data

\* Lines 121-131: the row printed for contingency n.
ResultRow(f, n, name, input_table) ==
    LET pf_converged == Flag(f, n, "pf_converged")
        opf_converged == Flag(f, n, "opf_converged")
        load_served == ServedTable(f, n)
        objective == Lookup(f, ContPath(n) \o <<"opf">>).attrs["objective"]
    IN  IF opf_converged
        THEN [kind |-> "result", idx |-> n, name |-> name,
              cost |-> Num(objective), shed |-> Num(Shed(input_table, load_served, 0)),
              status |-> StatusOf(pf_converged, opf_converged)]
        ELSE [kind |-> "result", idx |-> n, name |-> name,
              cost |-> Placeholder, shed |-> Placeholder,
              status |-> StatusOf(pf_converged, opf_converged)]

\* Lines 115-131: one pass of the results loop.
read_scenario_result_row ==
    /\ pc = "rs_results"
    /\ i < n_cont
    /\ LET rs == ResultReads(file, i + 1)
           bad == FirstFail(file, rs)
       IN  \/ /\ bad # 0
              /\ Raise("KeyError", rs[bad], SubSeq(rs, 1, bad), <<>>)
           \/ /\ bad = 0
              /\ reads' = reads \o Stamp(rs)
              /\ out' = out \o <<ResultRow(file, i + 1, cont_names[i + 1], load_input)>>
              /\ i' = i + 1
              /\ UNCHANGED <<input, pc, calls, handle, opens, err, load_input,
                             n_cont, cont_types, cont_names, cont_ids>>

\* A threshold that counts a delta of exactly 0.01.
SignificantInclusive(dpg) == {g \in DOMAIN dpg : Abs(dpg[g]) >= Threshold}

\* np.abs(dpg) > 0.01: the generators (from 1) whose delta is significant.
Significant(dpg) == {g \in DOMAIN dpg : Abs(dpg[g]) > Threshold}

\* Lines 140-148: the redispatch table, or the notice in its place.
RedispatchLines(base_gen, cont1_gen) ==
    LET dpg == [g \in 1..Len(cont1_gen) |-> cont1_gen[g][1] - base_gen[g][1]]
        rows == SelectSeq([g \in 1..Len(dpg) |-> g], LAMBDA g : g \in Significant(dpg))
    IN  IF Significant(dpg) # {}
        THEN <<Ln("redispatch_head")>>
             \o [k \in 1..Len(rows) |->
                    [kind |-> "redispatch", gen |-> rows[k],
                     base |-> base_gen[rows[k]][1], cont |-> cont1_gen[rows[k]][1],
                     delta |-> dpg[rows[k]]]]
        ELSE <<Ln("no_redispatch")>>

\* Lines 134-150: the redispatch of contingency 1 against the base case.
read_scenario_redispatch ==
    /\ pc = "rs_results"
    /\ i >= n_cont
    /\ LET rs == <<Get(BaseNodes("generator")), Get(OpfNodes(1, "generator"))>>
           bad == FirstFail(file, rs)
           title == <<Ln("dashes"), Ln("redispatch_title"), Ln("dashes")>>
       IN  \/ /\ bad # 0
              /\ Raise("KeyError", rs[bad], SubSeq(rs, 1, bad), title)
           \/ /\ bad = 0
              /\ reads' = reads \o Stamp(rs)
              /\ out' = out \o title
                    \o RedispatchLines(Lookup(file, BaseNodes("generator")).data,
                                       Lookup(file, OpfNodes(1, "generator")).data)
                    \o <<Ln("rule")>>
              /\ handle' = WithExit(handle)
              /\ pc' = "done"
              /\ UNCHANGED <<input, calls, opens, err, locals>>

\* ------------------------------------------------------ the specification
Next ==
    \/ main
    \/ print_structure_header
    \/ print_structure_open
    \/ print_structure_visit
    \/ read_element_open
    \/ read_element_not_found
    \/ read_element_dataset
    \/ read_element_group
    \/ read_scenario_header
    \/ read_scenario_open
    \/ read_scenario_load
    \/ read_scenario_base
    \/ read_scenario_contingencies
    \/ read_scenario_catalog_row
    \/ read_scenario_results_header
    \/ read_scenario_result_row
    \/ read_scenario_redispatch

Spec == Init /\ [][Next]_vars

\* ------------------------------------------------------------- the claims
\* The lines of one kind, in the order printed.
LinesOf(kind) == SelectSeq(out, LAMBDA l : l.kind = kind)
Summarizing == calls = <<"read_scenario">>
AttrVal(f, path, key) == Lookup(f, path).attrs[key]
\* The total of column c (from 0) of a table, row by row from the last.
RECURSIVE TotalTo(_, _, _)
TotalTo(table, c, k) == IF k = 0 THEN 0 ELSE table[k][c + 1] + TotalTo(table, c, k - 1)
ColumnTotal(table, c) == TotalTo(table, c, Len(table))

\* C1: the status of every result row is the one the two flags of its result
\* group select: "BOTH FAIL" iff both are 0, "PF OK, OPF FAIL" iff pf is 1 and
\* opf 0, "OPF OK" iff pf is 0 and opf 1, "PF+OPF OK" iff both are 1; and no
\* row has any other status.
C1_StatusByFlags ==
    \A k \in DOMAIN out :
        out[k].kind = "result" =>
            LET pf == AttrVal(file, ContPath(out[k].idx), "pf_converged")
                opf == AttrVal(file, ContPath(out[k].idx), "opf_converged")
                st == out[k].status
            IN  /\ (st = "BOTH FAIL") <=> (pf = 0 /\ opf = 0)
                /\ (st = "PF OK, OPF FAIL") <=> (pf = 1 /\ opf = 0)
                /\ (st = "OPF OK") <=> (pf = 0 /\ opf = 1)
                /\ (st = "PF+OPF OK") <=> (pf = 1 /\ opf = 1)
                /\ st \in {"BOTH FAIL", "PF OK, OPF FAIL", "OPF OK", "PF+OPF OK"}

\* A summary whose rows show an OPF that converged where the power flow did
\* not, and a power flow that converged where the OPF did not.
C1_Witness ==
    /\ pc = "done"
    /\ \E k \in DOMAIN out : out[k].kind = "result" /\ out[k].status = "OPF OK"
    /\ \E k \in DOMAIN out : out[k].kind = "result" /\ out[k].status = "PF OK, OPF FAIL"

\* Whether an access is to the served loads or the objective of contingency n.
IsSolutionRead(r, n) ==
    \/ r.op = "get" /\ r.path = OpfNodes(n, "load")
    \/ r.op = "attr" /\ r.path = ContPath(n) \o <<"opf">> /\ r.attr = "objective"

\* C5: a result row of a contingency whose opf_converged is 0 carries the
\* placeholders for cost and shed, its served loads and its objective are
\* never read, and no run fails on them: the row comes out even when the
\* sub-tree is absent.
C5_NoSolutionReadOnFailedOpf ==
    /\ \A k \in DOMAIN out :
        (out[k].kind = "result"
            /\ AttrVal(file, ContPath(out[k].idx), "opf_converged") = 0) =>
            /\ out[k].cost = Placeholder /\ out[k].shed = Placeholder
            /\ \A j \in DOMAIN reads : ~IsSolutionRead(reads[j], out[k].idx)
    /\ \A n \in 1..n_cont :
        (pc = "failed" /\ err.kind = "KeyError"
            /\ HasAttr(file, ContPath(n), "opf_converged")
            /\ AttrVal(file, ContPath(n), "opf_converged") = 0) =>
            ~IsSolutionRead([op |-> IF err.attr = "" THEN "get" ELSE "attr",
                             path |-> err.path, attr |-> err.attr], n)
    /\ (pc = "rs_results" /\ i > 0) => Len(LinesOf("result")) = i

\* The second contingency's OPF failed and left no sub-tree, and its row is out.
C5_Witness ==
    \E k \in DOMAIN out :
        /\ out[k].kind = "result" /\ out[k].idx = 2
        /\ AttrVal(file, ContPath(2), "opf_converged") = 0
        /\ ~Contains(file, ContPath(2) \o <<"opf">>)

\* A file that obeys the schema of the result file.
SchemaFile(f) ==
    /\ Contains(f, GridLoad)
    /\ \A name \in {"bus", "generator", "load"} : Contains(f, BaseNodes(name))
    /\ HasAttr(f, <<"contingencies">>, "count")
    /\ \A arr \in {"types", "names", "ids"} :
        /\ Contains(f, <<"contingencies", arr>>)
        /\ Len(Lookup(f, <<"contingencies", arr>>).data)
             = AttrVal(f, <<"contingencies">>, "count")
    /\ \A n \in 1..AttrVal(f, <<"contingencies">>, "count") :
        /\ Contains(f, ContPath(n))
        /\ \A key \in {"pf_converged", "opf_converged"} :
            HasAttr(f, ContPath(n), key) /\ AttrVal(f, ContPath(n), key) \in {0, 1}
        /\ AttrVal(f, ContPath(n), "opf_converged") = 1 =>
            /\ \A name \in {"bus", "generator", "load"} : Contains(f, OpfNodes(n, name))
            /\ HasAttr(f, ContPath(n) \o <<"opf">>, "objective")

\* C4: anything below a declared contingency's opf sub-tree is read only after
\* that contingency's opf_converged was read and was 1; so the summary of a
\* schema file whose contingency 1 failed its OPF and has no sub-tree completes.
C4_SolutionReadOnlyIfConverged ==
    /\ \A k \in DOMAIN reads : \A n \in 1..n_cont :
        (Len(reads[k].path) >= 3
            /\ SubSeq(reads[k].path, 1, 3) = ContPath(n) \o <<"opf">>) =>
            /\ HasAttr(file, ContPath(n), "opf_converged")
            /\ AttrVal(file, ContPath(n), "opf_converged") = 1
            /\ \E j \in 1..(k - 1) :
                /\ reads[j].op = "attr" /\ reads[j].path = ContPath(n)
                /\ reads[j].attr = "opf_converged"
    /\ (/\ Summarizing
        /\ SchemaFile(file)
        /\ AttrVal(file, <<"contingencies">>, "count") >= 1
        /\ AttrVal(file, ContPath(1), "opf_converged") = 0
        /\ ~Contains(file, ContPath(1) \o <<"opf">>)) => pc # "failed"

\* The generator tables the redispatch step compares.
BaseGenTable == Lookup(file, BaseNodes("generator")).data
Cont1GenTable == Lookup(file, OpfNodes(1, "generator")).data
Delta(g) == Cont1GenTable[g][1] - BaseGenTable[g][1]

C7_ShedIsDemandMinusServed ==
    LET demand == Lookup(file, GridLoad).data
    IN  /\ \A k \in DOMAIN out :
            out[k].kind = "load_shed" =>
                LET served == Lookup(file, BaseNodes("load")).data
                IN  /\ out[k].p = ColumnTotal(demand, 0) - ColumnTotal(served, 0)
                    /\ out[k].q = ColumnTotal(demand, 1) - ColumnTotal(served, 1)
        /\ \A k \in DOMAIN out :
            (out[k].kind = "result"
                /\ AttrVal(file, ContPath(out[k].idx), "opf_converged") = 1) =>
                LET served == Lookup(file, OpfNodes(out[k].idx, "load")).data
                IN  out[k].shed
                        = Num(ColumnTotal(demand, 0) - ColumnTotal(served, 0))

\* A summary in which the base case and the two contingencies shed three
\* different amounts, and the base case sheds P and Q differently.
C7_Witness ==
    /\ pc = "done" /\ Summarizing
    /\ Len(LinesOf("result")) = 2
    /\ LET base == LinesOf("load_shed")[1]
           rows == LinesOf("result")
       IN  /\ base.p # base.q
           /\ rows[1].shed.avail /\ rows[2].shed.avail
           /\ rows[1].shed.val # rows[2].shed.val
           /\ rows[1].shed.val # base.p /\ rows[2].shed.val # base.p

\* The paths print_structure prints for container f.
StructurePaths(f) ==
    LET lines == StructureLines(f)
    IN  {lines[k].path : k \in {j \in DOMAIN lines : lines[j].kind \in {"dataset", "group"}}}

\* C8: every path the structure walk enumerates resolves (read_element does
\* not take its not-found branch for it), and the paths read_element lists in
\* its not-found branch are exactly those the structure walk enumerates.
C8_WalkedPathsResolve ==
    LET walked == StructurePaths(file)
        listed == LinesOf("path")
    IN  /\ pc = "main" => \A p \in walked : Contains(file, p)
        /\ \A k \in DOMAIN out :
            out[k].kind \in {"dataset", "group"} =>
                /\ Contains(file, out[k].path)
                /\ Lookup(file, out[k].path).kind = out[k].kind
        /\ \A k \in DOMAIN out :
            out[k].kind = "not_found" =>
                /\ out[k].path \notin walked
                /\ {listed[j].path : j \in DOMAIN listed} = walked
                /\ Len(listed) = Cardinality(walked)

\* read_element did not find b/a in a container that holds a/a and a/b.
C8_Witness ==
    /\ pc = "done" /\ calls = <<"read_element">>
    /\ out[1].kind = "not_found" /\ out[1].path = <<"b", "a">>
    /\ \E k \in DOMAIN out : out[k].kind = "path" /\ out[k].path = <<"a", "b">>
    /\ \E k \in DOMAIN out : out[k].kind = "path" /\ out[k].path = <<"a", "a">>

\* C9 as stated: the two flags exclude each other, and of the three operations
\* exactly one runs: print_structure iff --structure is given, read_element iff
\* --element is given (whatever its value), read_scenario iff neither is.
C9_OneComponentPerFlag ==
    pc # "main" =>
        /\ ~(args.structure /\ args.hasElement)
        /\ Len(calls) = 1
        /\ calls[1] = "print_structure" <=> args.structure
        /\ calls[1] = "read_element" <=> args.hasElement
        /\ calls[1] = "read_scenario" <=> (~args.structure /\ ~args.hasElement)

\* C9 as amended: both flags may be given; exactly one operation runs:
\* print_structure iff --structure is given, read_element iff --structure is
\* not given and --element is given with a non-empty value, read_scenario in
\* every other case.
C9_OneComponentByPrecedence ==
    /\ Len(calls) <= 1
    /\ pc # "main" =>
        /\ Len(calls) = 1
        /\ calls[1] = "print_structure" <=> args.structure
        /\ calls[1] = "read_element"
            <=> (~args.structure /\ args.hasElement /\ args.element # <<>>)
        /\ calls[1] = "read_scenario"
            <=> (~args.structure /\ (~args.hasElement \/ args.element = <<>>))
        /\ (pc \in {"ps_header", "ps_open", "ps_visit"}) => calls[1] = "print_structure"
        /\ (pc \in {"re_open", "re_check"}) => calls[1] = "read_element"
        /\ (pc \in {"rs_header", "rs_open", "rs_load", "rs_base", "rs_contingencies",
                    "rs_catalog", "rs_results"}) => calls[1] = "read_scenario"

\* Both flags were given and the structure walk ran to its end.
C9_Witness ==
    /\ pc = "done" /\ args.structure /\ args.hasElement /\ args.element # <<>>
    /\ calls = <<"print_structure">>
    /\ \E k \in DOMAIN out : out[k].kind = "dataset"

\* The positions inside a with block.
InWith ==
    {"ps_visit", "re_check", "rs_load", "rs_base", "rs_contingencies", "rs_catalog",
     "rs_results"}

\* C10: each operation opens the file at most once, before its first access;
\* the handle is open exactly while the program is inside the with block, so it
\* is closed after a normal end, after read_element's return on a path not
\* found and after an error of any read; and every access goes through the
\* open handle.
C10_HandleScoped ==
    /\ opens <= 1
    /\ handle = "open" <=> pc \in InWith
    /\ pc \in InWith => opens = 1
    /\ pc \in {"done", "failed"} =>
        handle = (IF opens = 1 THEN "closed" ELSE "none")
    /\ pc = "done" => opens = 1
    /\ reads # <<>> => opens = 1
    /\ \A k \in DOMAIN reads : reads[k].h = "open"

\* A read in the middle of read_scenario raised, rows were already printed,
\* and the handle is closed.
C10_Witness ==
    /\ pc = "failed" /\ err.kind = "KeyError" /\ Summarizing
    /\ Len(LinesOf("result")) >= 1
    /\ handle = "closed" /\ Len(reads) > 5

\* What read_scenario reads of file f, in the order it reads it.
RECURSIVE ResultReadsTo(_, _)
ResultReadsTo(f, n) ==
    IF n = 0 THEN <<>> ELSE ResultReadsTo(f, n - 1) \o ResultReads(f, n)
Required(f) ==
    LET head == <<Get(GridLoad), Get(BaseNodes("bus")), Get(BaseNodes("generator")),
                  Get(BaseNodes("load")), Attr(<<"contingencies">>, "count"),
                  Get(<<"contingencies", "types">>), Get(<<"contingencies", "names">>),
                  Get(<<"contingencies", "ids">>)>>
        tail == <<Get(BaseNodes("generator")), Get(OpfNodes(1, "generator"))>>
    IN  IF FirstFail(f, head) # 0 THEN head
        ELSE head \o ResultReadsTo(f, AttrVal(f, <<"contingencies">>, "count")) \o tail

\* C2 as stated: a summary that fails on a missing path or attribute has
\* printed no line.
C2_NoOutputBeforeFailure ==
    (Summarizing /\ pc = "failed" /\ err.kind = "KeyError") => out = <<>>

\* C2 as amended: a summary of a file that lacks a path or attribute it reads
\* never completes; it fails at the first such read with a KeyError naming it,
\* and the lines printed before that read stay printed: at least the three
\* header lines, which are printed before the file is opened.
C2_FailsAtMissingPathAfterPartialOutput ==
    /\ (Summarizing /\ pc = "done") =>
        \A k \in DOMAIN Required(file) : ReadOk(file, Required(file)[k])
    /\ (Summarizing /\ pc = "failed" /\ err.kind = "KeyError") =>
        LET last == reads[Len(reads)]
        IN  /\ reads # <<>>
            /\ err.path = last.path /\ err.attr = last.attr
            /\ ~ReadOk(file, last)
            /\ \A k \in 1..(Len(reads) - 1) : ReadOk(file, reads[k])
            /\ Len(out) >= 3
            /\ out[1].kind = "rule" /\ out[2].kind = "reading_title"

\* The second result group is missing: the summary failed after the catalog
\* and the first result row were printed.
C2_Witness ==
    /\ Summarizing /\ pc = "failed" /\ err.kind = "KeyError"
    /\ err.path = ContPath(2)
    /\ Len(LinesOf("catalog")) = 2 /\ Len(LinesOf("result")) = 1

\* The lengths of the parallel arrays of file f, when it has them and a count.
HasArrays(f) ==
    /\ HasAttr(f, <<"contingencies">>, "count")
    /\ \A arr \in {"types", "names", "ids"} : Contains(f, <<"contingencies", arr>>)
ArrayLen(f, arr) == Len(Lookup(f, <<"contingencies", arr>>).data)
ShortestArray(f) ==
    CHOOSE m \in {ArrayLen(f, arr) : arr \in {"types", "names", "ids"}} :
        \A arr \in {"types", "names", "ids"} : m <= ArrayLen(f, arr)
Mismatch(f) ==
    \E arr \in {"types", "names", "ids"} :
        ArrayLen(f, arr) # AttrVal(f, <<"contingencies">>, "count")

\* C3 as stated: the summary of a file in which a parallel array is shorter or
\* longer than the count fails, and prints no catalog row and no result row.
C3_MismatchFailsBeforeRows ==
    (Summarizing /\ HasArrays(file) /\ Mismatch(file)) =>
        /\ pc # "done"
        /\ LinesOf("catalog") = <<>> /\ LinesOf("result") = <<>>

\* C3 as amended: when a parallel array is shorter than the count N, the
\* summary never reaches the results: once the count and the arrays are read
\* the catalog loop prints the rows of the indices below the shortest array's
\* length m and then fails with an IndexError, before any result row.  Arrays
\* as long as N or longer raise no such error; their entries past N are ignored.
C3_ShortArrayFailsInCatalog ==
    (Summarizing /\ HasArrays(file)) =>
        LET N == AttrVal(file, <<"contingencies">>, "count")
            m == ShortestArray(file)
            rows == Len(LinesOf("catalog"))
        IN  /\ rows <= N
            /\ m < N =>
                /\ pc \notin {"rs_results", "done"}
                /\ LinesOf("result") = <<>>
                /\ rows <= m
                /\ pc = "rs_catalog" => i = rows
                /\ (pc = "failed" /\ LinesOf("contingency_count") # <<>>) =>
                    (err.kind = "IndexError" /\ rows = m)
            /\ m >= N =>
                /\ err.kind # "IndexError"
                /\ pc \in {"rs_results", "done"} => rows = N

\* The count is 2 and an array holds one entry: the summary failed after one
\* catalog row.
C3_Witness ==
    /\ Summarizing /\ HasArrays(file)
    /\ AttrVal(file, <<"contingencies">>, "count") = 2
    /\ ShortestArray(file) = 1
    /\ pc = "failed" /\ err.kind = "IndexError"
    /\ Len(LinesOf("catalog")) = 1

=============================================================================
